---- MODULE Spec2Model ----
(***************************************************************************)
(* Payment reconciliation engine of src/yookassa_service.py:               *)
(* YooKassaService.create_payment, check_payment and handle_webhook, the   *)
(* status mapper _map_status and the webhook signature verifier.           *)
(*                                                                         *)
(* Every invocation runs as a coroutine with its own database session; it  *)
(* can be suspended at each await (the SELECT of the Payment, the gateway  *)
(* call, the grant, the flush), so each await is one step of the model.    *)
(***************************************************************************)
EXTENDS Integers, Sequences, FiniteSets, TLC

\* ---------------------------------------------------------------- bounds
NumProcs == 2        \* concurrently running invocations
MaxPayments == 1     \* Payments that create_payment may persist
MaxCalls == 3        \* invocations started in one behaviour (the clock)

\* ------------------------------------------------------ program constants
KopecksPerRuble == 100
DurationDays == 30

Procs == 1..NumProcs
None == "None"
NoTime == 0
NoId == 0

\* PaymentStatus: the closed set of domain states.
PENDING == "PENDING"
WAITING_FOR_CAPTURE == "WAITING_FOR_CAPTURE"
SUCCEEDED == "SUCCEEDED"
CANCELED == "CANCELED"
PaymentStatus == {PENDING, WAITING_FOR_CAPTURE, SUCCEEDED, CANCELED}

\* The value of each member of the enumeration.
StatusValue(s) ==
    CASE s = PENDING -> "pending"
      [] s = WAITING_FOR_CAPTURE -> "waiting_for_capture"
      [] s = SUCCEEDED -> "succeeded"
      [] s = CANCELED -> "canceled"

\* Status strings the gateway may report; "refunded" stands for every
\* literal the enumeration does not know.
RawStatuses == {"pending", "waiting_for_capture", "succeeded", "canceled", "refunded"}

\* SubscriptionTier
FREE == "free"
PRO == "pro"
ULTRA == "ultra"
SubscriptionTier == {FREE, PRO, ULTRA}

UserIds == {"u1"}
PriceChoices == {0, 500}
SecretChoices == {"", "whsec"}
GatewayIds == 1..(MaxPayments + 1)

\* A gateway payment record as find_one / create return it: its status, the
\* reason of its cancellation_details, and whether its amount is the one the
\* Payment was created with. A reason comes with 'canceled' only; an amount
\* that differs (a partial capture) is modelled for 'succeeded' only.
CancellationReasons == {None, "expired_on_confirmation"}
GatewayAmounts == {"as_created", "partial"}
Responses ==
    {r \in [status : RawStatuses, cancellation_details : CancellationReasons,
            amount : GatewayAmounts] :
        /\ r.cancellation_details # None => r.status = "canceled"
        /\ r.amount # "as_created" => r.status = "succeeded"}
NoResponse == [status |-> "", cancellation_details |-> None, amount |-> None]

\* A webhook notification: the gateway id of its object (NoId when the
\* object or its id is missing) and the status the body carries.
Payloads == [id : {NoId} \cup GatewayIds, status : {"succeeded", "canceled"}]
NoPayload == [id |-> NoId, status |-> ""]

\* A row of the payments table.
NoPayment ==
    [id |-> 0, yookassa_payment_id |-> NoId, user_id |-> None,
     subscription_tier |-> None, amount |-> 0, status |-> None,
     confirmation_url |-> None, error_message |-> None, processed_at |-> NoTime]

VARIABLES
    settings,    \* configuration: tier prices and the webhook secret
    payments,    \* the payments table, in creation order
    users,       \* ids of the User rows that exist
    upgrades,    \* log of UserService.upgrade_subscription invocations
    now,         \* the clock; one tick per started invocation
    pc,          \* pc[p]: the await the invocation p is suspended at
    frame,       \* frame[p]: arguments and locals of the invocation p runs
    last,        \* the frame of the invocation that ended last, with its outcome
    healthy      \* from now on find_one reports 'succeeded' and the grantor works

vars == <<settings, payments, users, upgrades, now, pc, frame, last, healthy>>

\* ------------------------------------------------------------ pure parts

\* A mapper that takes a status it does not know for a failed payment.
MapStatusUnknownCanceled(status) ==
    IF \E s \in PaymentStatus : StatusValue(s) = status
    THEN CHOOSE s \in PaymentStatus : StatusValue(s) = status
    ELSE IF status = "waiting_for_capture" THEN WAITING_FOR_CAPTURE ELSE CANCELED

\* _map_status: the enumeration's lookup by value, then the fallback branch.
MapStatus(status) ==
    IF \E s \in PaymentStatus : StatusValue(s) = status
    THEN CHOOSE s \in PaymentStatus : StatusValue(s) = status
    ELSE IF status = "waiting_for_capture" THEN WAITING_FOR_CAPTURE ELSE PENDING

\* _get_tier_price_rubles
GetTierPriceRubles(tier) ==
    IF tier = PRO THEN settings.pro_monthly_price
    ELSE IF tier = ULTRA THEN settings.ultra_monthly_price
    ELSE 0

\* json.dumps(payload, separators=(',', ':')): the body as a token string.
JsonDumps(payload) ==
    IF payload.id = NoId
    THEN <<"{", "object", ":", "{", "status", ":", payload.status, "}", "}">>
    ELSE <<"{", "object", ":", "{", "id", ":", ToString(payload.id), ",",
           "status", ":", payload.status, "}", "}">>

\* hmac.new(key, body, sha256).hexdigest(): collision-free on the modelled
\* keys and bodies, so a digest is the pair it was computed from.
HmacSha256Hex(key, body) == [kind |-> "hex", key |-> key, body |-> body]

\* Values of the X-Signature header: absent, empty, a hex digest, or a
\* string hmac.compare_digest refuses (non-ASCII), which raises TypeError.
NoSignature == [kind |-> "none", key |-> "", body |-> <<>>]
EmptySignature == [kind |-> "empty", key |-> "", body |-> <<>>]
NonAsciiSignature == [kind |-> "nonascii", key |-> "", body |-> <<>>]
Tampered(payload) ==
    [payload EXCEPT !.status = IF @ = "succeeded" THEN "canceled" ELSE "succeeded"]
SignaturesFor(payload) ==
    {NoSignature, EmptySignature, NonAsciiSignature,
     HmacSha256Hex("whsec", JsonDumps(payload)),
     HmacSha256Hex("whsec", JsonDumps(Tampered(payload)))}

\* Python truthiness of the Optional[str] signature argument.
Truthy(signature) == signature.kind \notin {"none", "empty"}

\* A verifier that accepts every digest made with the configured secret,
\* whatever body it was computed over.
VerifyWebhookSignatureKeyOnly(payload, signature) ==
    IF settings.yookassa_webhook_secret = ""
    THEN TRUE
    ELSE IF signature.kind = "nonascii"
    THEN FALSE
    ELSE signature.kind = "hex" /\ signature.key = settings.yookassa_webhook_secret

\* verify_webhook_signature
VerifyWebhookSignature(payload, signature) ==
    IF settings.yookassa_webhook_secret = ""
    THEN TRUE
    ELSE IF signature.kind = "nonascii"
    THEN FALSE      \* compare_digest raises, the except branch returns False
    ELSE HmacSha256Hex(settings.yookassa_webhook_secret, JsonDumps(payload)) = signature

\* A gate that logs the failed verification and goes on.
WebhookRejectedNever(payload, signature) == FALSE

\* handle_webhook's signature gate: TRUE when the webhook is rejected.
WebhookRejected(payload, signature) ==
    Truthy(signature) /\ ~VerifyWebhookSignature(payload, signature)

\* A handler that acts only on notifications whose body says 'succeeded'.
PayloadPaymentIdOfSucceeded(payload) ==
    IF payload.status = "succeeded" THEN payload.id ELSE NoId

\* payload.get("object") or {} ... .get("id")
PayloadPaymentId(payload) == payload.id

\* select(Payment).where(yookassa_payment_id == payment_id) ... scalar_one_or_none:
\* the index of the row, 0 when there is none.
FindRow(table, payment_id) ==
    IF \E i \in 1..Len(table) : table[i].yookassa_payment_id = payment_id
    THEN CHOOSE i \in 1..Len(table) : table[i].yookassa_payment_id = payment_id
    ELSE 0

\* A check_payment without the short-circuit.
AlreadySucceededNever(payment) == FALSE

\* The short-circuit of check_payment on a Payment that already succeeded.
AlreadySucceeded(payment) == payment.status = SUCCEEDED

\* A check_payment that calls the grantor on every change of status.
ShouldGrantOnChange(new_status, payment) ==
    new_status # payment.status

\* The condition under which check_payment grants the subscription.
ShouldGrant(new_status, payment) ==
    new_status = SUCCEEDED /\ payment.status # SUCCEEDED

\* A check_payment that touches the Payment only when its status changes.
ReconciledOnChange(payment, response, time) ==
    IF MapStatus(response.status) = payment.status
    THEN payment
    ELSE [payment EXCEPT
            !.status = MapStatus(response.status),
            !.processed_at = time,
            !.error_message = IF response.cancellation_details # None
                              THEN response.cancellation_details ELSE None]

\* A check_payment that takes the amount over from the gateway's record.
ReconciledWithAmount(payment, response, time) ==
    [payment EXCEPT
        !.status = MapStatus(response.status),
        !.processed_at = time,
        !.error_message = IF response.cancellation_details # None
                          THEN response.cancellation_details ELSE None,
        !.amount = IF response.amount = "partial" THEN @ - 1 ELSE @]

\* The attribute assignments of check_payment on its loaded Payment object.
Reconciled(payment, response, time) ==
    [payment EXCEPT
        !.status = MapStatus(response.status),
        !.processed_at = time,
        !.error_message = IF response.cancellation_details # None
                          THEN response.cancellation_details ELSE None]

\* session.flush(): the UPDATE carries the attributes whose value differs
\* from the one this session loaded; the other columns keep what is stored.
\* The caller commits after the call, so the write is taken to be visible to
\* the other sessions from the flush on.
FlushRow(stored, loaded, object) ==
    [column \in DOMAIN stored |->
        IF object[column] # loaded[column] THEN object[column] ELSE stored[column]]

\* How an invocation ends.
NoOutcome == [kind |-> "none", payment |-> NoPayment, error |-> None]
ReturnPayment(payment) == [kind |-> "payment", payment |-> payment, error |-> None]
ReturnNone == [kind |-> "null", payment |-> NoPayment, error |-> None]
Raise(error) == [kind |-> "raise", payment |-> NoPayment, error |-> error]

\* The arguments and locals of an invocation; pre is the payments table
\* the invocation started from.
NewFrame(op) ==
    [op |-> op, user_id |-> None, tier |-> None,
     payment_id |-> NoId, payload |-> NoPayload, signature |-> NoSignature,
     row |-> 0, loaded |-> NoPayment, response |-> NoResponse,
     gateway_calls |-> 0, upgrade_calls |-> 0,
     inner |-> NoOutcome, outcome |-> NoOutcome,
     pre |-> payments]

\* A handler without the try/except.
WebhookResultReraised(out) == out

\* handle_webhook's try/except around check_payment: what the caller of
\* the invocation gets for what check_payment ended with.
WebhookResult(out) == IF out.kind = "raise" THEN ReturnNone ELSE out

\* The end of check_payment, called directly or by handle_webhook.
Finish(f, out) ==
    [f EXCEPT !.inner = out,
              !.outcome = IF f.op = "webhook" THEN WebhookResult(out) ELSE out]

\* ----------------------------------------------------------------- state

\* The deployments considered: one of the two paid tiers has a price, the
\* other has none configured; the webhook secret is set or not.
SettingsChoices ==
    {s \in [pro_monthly_price : PriceChoices, ultra_monthly_price : PriceChoices,
            yookassa_webhook_secret : SecretChoices] :
        s.pro_monthly_price # s.ultra_monthly_price}

Idle == [NewFrame("none") EXCEPT !.pre = <<>>]

Init ==
    /\ settings \in SettingsChoices
    /\ payments = <<>>
    /\ users = UserIds
    /\ upgrades = <<>>
    /\ now = 0
    /\ pc = [p \in Procs |-> "idle"]
    /\ frame = [p \in Procs |-> Idle]
    /\ last = Idle
    /\ healthy = FALSE

\* An invocation can start on p: p runs none, and the clock has not run out.
CanStart(p) == pc[p] = "idle" /\ now < MaxCalls

\* What a step of an invocation does: where the invocation continues
\* ("idle": it has ended), its frame, the payments table and the grant log.
Effect(at, f, table, log) ==
    [pc |-> at, frame |-> f, payments |-> table, upgrades |-> log]

\* The invocation of p takes a step with the effect eff. When it ends, its
\* frame, which holds the outcome, is kept as the last one that ended.
Take(p, eff) ==
    /\ payments' = eff.payments
    /\ upgrades' = eff.upgrades
    /\ pc' = [pc EXCEPT ![p] = eff.pc]
    /\ frame' = [frame EXCEPT ![p] = IF eff.pc = "idle" THEN Idle ELSE eff.frame]
    /\ last' = IF eff.pc = "idle" THEN eff.frame ELSE last

\* Invocations of the grantor for the Payment in row i, and those that succeeded.
UpgradeCalls(i) == Cardinality({k \in 1..Len(upgrades) : upgrades[k].row = i})
UpgradesDone(i) ==
    Cardinality({k \in 1..Len(upgrades) : upgrades[k].row = i /\ upgrades[k].ok})

\* --------------------------------------------------------- create_payment

\* A create_payment that stores the amount in rubles.
NewPaymentInRubles(user_id, tier, amount_rubles, response_id, response) ==
    [id |-> Len(payments) + 1,
     yookassa_payment_id |-> response_id,
     user_id |-> user_id,
     subscription_tier |-> tier,
     amount |-> amount_rubles,
     status |-> MapStatus(response.status),
     confirmation_url |-> "confirmation_url",
     error_message |-> None,
     processed_at |-> NoTime]

\* The Payment row create_payment builds from the gateway's response.
NewPayment(user_id, tier, amount_rubles, response_id, response) ==
    [id |-> Len(payments) + 1,
     yookassa_payment_id |-> response_id,
     user_id |-> user_id,
     subscription_tier |-> tier,
     amount |-> amount_rubles * KopecksPerRuble,
     status |-> MapStatus(response.status),
     confirmation_url |-> "confirmation_url",
     error_message |-> None,
     processed_at |-> NoTime]

\* A price check that lets a price of zero through.
InvalidTierPriceBelowZero(amount_rubles) == amount_rubles < 0

\* The price check of create_payment.
InvalidTierPrice(amount_rubles) == amount_rubles <= 0

\* A create_payment that adds the Payment to the session before it calls the
\* gateway, so that a failed call leaves the row behind.
CreatePaymentEffectPersistFirst(user_id, tier, gateway_ok, response) ==
    LET f == [NewFrame("create") EXCEPT !.user_id = user_id, !.tier = tier]
        amount_rubles == GetTierPriceRubles(tier)
        payment == NewPayment(user_id, tier, amount_rubles, Len(payments) + 1, response)
        orphan == NewPayment(user_id, tier, amount_rubles, NoId, NoResponse)
    IN  IF InvalidTierPrice(amount_rubles)
        THEN Effect("idle", Finish(f, Raise("ValueError")), payments, upgrades)
        ELSE IF ~gateway_ok
        THEN Effect("idle", Finish([f EXCEPT !.gateway_calls = 1], Raise("GatewayError")),
                    Append(payments, orphan), upgrades)
        ELSE Effect("idle",
                    Finish([f EXCEPT !.gateway_calls = 1, !.row = payment.id,
                                     !.response = response],
                           ReturnPayment(payment)),
                    Append(payments, payment), upgrades)

\* create_payment(user, tier): the price check, YooPayment.create, then
\* session.add and flush. gateway_ok and response are the gateway's answer,
\* which carries a fresh gateway id.
CreatePaymentEffect(user_id, tier, gateway_ok, response) ==
    LET f == [NewFrame("create") EXCEPT !.user_id = user_id, !.tier = tier]
        amount_rubles == GetTierPriceRubles(tier)
        payment == NewPayment(user_id, tier, amount_rubles, Len(payments) + 1, response)
    IN  IF InvalidTierPrice(amount_rubles)
        THEN Effect("idle", Finish(f, Raise("ValueError")), payments, upgrades)
        ELSE IF ~gateway_ok
        THEN Effect("idle", Finish([f EXCEPT !.gateway_calls = 1], Raise("GatewayError")),
                    payments, upgrades)
        ELSE Effect("idle",
                    Finish([f EXCEPT !.gateway_calls = 1, !.row = payment.id,
                                     !.response = response],
                           ReturnPayment(payment)),
                    Append(payments, payment), upgrades)

CreatePayment(p) ==
    \E user_id \in users, tier \in SubscriptionTier,
       gateway_ok \in BOOLEAN, response \in Responses :
        LET eff == CreatePaymentEffect(user_id, tier, gateway_ok, response) IN
        /\ CanStart(p)
        /\ response.cancellation_details = None
        /\ response.amount = "as_created"
        /\ Len(eff.payments) <= MaxPayments
        /\ now' = now + 1
        /\ Take(p, eff)
        /\ UNCHANGED <<healthy, settings, users>>

\* ---------------------------------------------------------- check_payment

\* The SELECT of the Payment and what follows it up to the next await:
\* not found, the short-circuit, or on to the gateway call.
ReadPayment(f, payment_id) ==
    LET i == FindRow(payments, payment_id)
        g == [f EXCEPT !.payment_id = payment_id, !.row = i]
    IN  IF i = 0
        THEN Effect("idle", Finish(g, Raise("PaymentNotFound")), payments, upgrades)
        ELSE IF AlreadySucceeded(payments[i])
        THEN Effect("idle",
                    Finish([g EXCEPT !.loaded = payments[i]], ReturnPayment(payments[i])),
                    payments, upgrades)
        ELSE Effect("find_one", [g EXCEPT !.loaded = payments[i]], payments, upgrades)

\* check_payment(payment_id), called directly.
CheckPayment(p) ==
    \E payment_id \in GatewayIds :
        /\ CanStart(p)
        /\ now' = now + 1
        /\ Take(p, ReadPayment(NewFrame("check"), payment_id))
        /\ UNCHANGED <<healthy, settings, users>>

\* What handle_webhook does before check_payment's first await: the
\* signature gate, the extraction of the id, the SELECT of the Payment.
WebhookEntry(payload, signature) ==
    LET f == [NewFrame("webhook") EXCEPT !.payload = payload,
                                         !.signature = signature]
        payment_id == PayloadPaymentId(payload)
    IN  IF WebhookRejected(payload, signature) \/ payment_id = NoId
        THEN Effect("idle", [f EXCEPT !.outcome = ReturnNone], payments, upgrades)
        ELSE ReadPayment(f, payment_id)

\* handle_webhook(payload, signature)
HandleWebhook(p) ==
    \E payload \in Payloads :
      \E signature \in SignaturesFor(payload) :
        /\ CanStart(p)
        /\ now' = now + 1
        /\ Take(p, WebhookEntry(payload, signature))
        /\ UNCHANGED <<healthy, settings, users>>

\* A check_payment that stamps processed_at before it calls the gateway.
FindOneRaisedAfterStamp(f) ==
    Effect("idle", Finish([f EXCEPT !.gateway_calls = @ + 1], Raise("GatewayError")),
           [payments EXCEPT ![f.row] = [@ EXCEPT !.processed_at = now]], upgrades)

\* YooPayment.find_one raises: check_payment logs and re-raises.
FindOneRaised(f) ==
    Effect("idle", Finish([f EXCEPT !.gateway_calls = @ + 1], Raise("GatewayError")),
           payments, upgrades)

FindOneFails(p) ==
    /\ pc[p] = "find_one"
    /\ ~healthy
    /\ Take(p, FindOneRaised(frame[p]))
    /\ UNCHANGED <<healthy, settings, users, now>>

\* YooPayment.find_one returns a record: map its status and decide whether
\* the subscription is to be granted before the assignments.
FindOneReturned(f, response) ==
    Effect(IF ShouldGrant(MapStatus(response.status), f.loaded) THEN "upgrade" ELSE "flush",
           [f EXCEPT !.gateway_calls = @ + 1, !.response = response],
           payments, upgrades)

FindOne(p) ==
    \E response \in Responses :
        /\ pc[p] = "find_one"
        /\ healthy => response.status = "succeeded"
        /\ Take(p, FindOneReturned(frame[p], response))
        /\ UNCHANGED <<healthy, settings, users, now>>

\* A check_payment that commits the new status before it grants.
UpgradeAfterCommit(f, ok) ==
    LET g == [f EXCEPT !.upgrade_calls = @ + 1]
        entry == [row |-> f.row, user_id |-> f.loaded.user_id,
                  tier |-> f.loaded.subscription_tier,
                  duration_days |-> DurationDays, ok |-> ok]
        committed == [payments EXCEPT ![f.row] = [@ EXCEPT !.status = SUCCEEDED]]
    IN  IF f.loaded.user_id \notin users
        THEN Effect("flush", f, committed, upgrades)
        ELSE IF ok
        THEN Effect("flush", g, committed, Append(upgrades, entry))
        ELSE Effect("idle", Finish(g, Raise("GrantFailure")),
                    committed, Append(upgrades, entry))

\* The SELECT of the User and UserService.upgrade_subscription, which is
\* skipped when the User row is gone; ok is whether the grantor succeeds.
\* When it raises, check_payment ends before its assignments.
Upgrade(f, ok) ==
    LET g == [f EXCEPT !.upgrade_calls = @ + 1]
        entry == [row |-> f.row, user_id |-> f.loaded.user_id,
                  tier |-> f.loaded.subscription_tier,
                  duration_days |-> DurationDays, ok |-> ok]
    IN  IF f.loaded.user_id \notin users
        THEN Effect("flush", f, payments, upgrades)
        ELSE IF ok
        THEN Effect("flush", g, payments, Append(upgrades, entry))
        ELSE Effect("idle", Finish(g, Raise("GrantFailure")),
                    payments, Append(upgrades, entry))

UpgradeSubscription(p) ==
    \E ok \in BOOLEAN :
        /\ pc[p] = "upgrade"
        /\ healthy => ok
        /\ Take(p, Upgrade(frame[p], ok))
        /\ UNCHANGED <<healthy, settings, users, now>>

\* The assignments to the loaded Payment and session.flush().
FlushPayment(f) ==
    LET object == Reconciled(f.loaded, f.response, now) IN
    Effect("idle", Finish(f, ReturnPayment(object)),
           [payments EXCEPT ![f.row] = FlushRow(@, f.loaded, object)], upgrades)

Flush(p) ==
    /\ pc[p] = "flush"
    /\ Take(p, FlushPayment(frame[p]))
    /\ UNCHANGED <<healthy, settings, users, now>>

\* ------------------------------------------------------------ environment

\* A User row is deleted: the SELECT of check_payment then finds none.
RemoveUser ==
    \E u \in users :
        /\ users' = users \ {u}
        /\ UNCHANGED <<healthy, settings, payments, upgrades, now, pc, frame, last>>

\* ---------------------------------------------------------- specification

\* Invocations run concurrently, one per process.
Next ==
    \/ \E p \in Procs : CreatePayment(p)
    \/ \E p \in Procs : CheckPayment(p)
    \/ \E p \in Procs : HandleWebhook(p)
    \/ \E p \in Procs : FindOneFails(p)
    \/ \E p \in Procs : FindOne(p)
    \/ \E p \in Procs : UpgradeSubscription(p)
    \/ \E p \in Procs : Flush(p)
    \/ RemoveUser

Spec == Init /\ [][Next]_vars

\* Invocations do not overlap: one starts only when none is running.
NoneRunning == \A q \in Procs : pc[q] = "idle"

NextSeq ==
    \/ \E p \in Procs : NoneRunning /\ CreatePayment(p)
    \/ \E p \in Procs : NoneRunning /\ CheckPayment(p)
    \/ \E p \in Procs : NoneRunning /\ HandleWebhook(p)
    \/ \E p \in Procs : FindOneFails(p)
    \/ \E p \in Procs : FindOne(p)
    \/ \E p \in Procs : UpgradeSubscription(p)
    \/ \E p \in Procs : Flush(p)
    \/ RemoveUser

SpecSeq == Init /\ [][NextSeq]_vars

\* A poller that calls check_payment again and again for a stored Payment,
\* and a gateway and a grantor that fail for a while and then recover.

\* check_payment is called (again) for a Payment that is stored. A call that
\* short-circuits stamps nothing, so it takes no tick of the clock and the
\* poller can go on with it for ever.
RetryCheck(p) ==
    \E i \in 1..Len(payments) :
        /\ pc[p] = "idle"
        /\ now < MaxCalls \/ AlreadySucceeded(payments[i])
        /\ now' = IF AlreadySucceeded(payments[i]) THEN now ELSE now + 1
        /\ Take(p, ReadPayment(NewFrame("check"), payments[i].yookassa_payment_id))
        /\ UNCHANGED <<healthy, settings, users>>

\* The outage ends: from here on every find_one returns a record that says
\* 'succeeded' and upgrade_subscription does not raise.
Recover ==
    /\ ~healthy
    /\ healthy' = TRUE
    /\ UNCHANGED <<settings, payments, users, upgrades, now, pc, frame, last>>

NextLive ==
    \/ \E p \in Procs : NoneRunning /\ ~healthy /\ Len(payments) = 0 /\ CreatePayment(p)
    \/ \E p \in Procs : NoneRunning /\ RetryCheck(p)
    \/ \E p \in Procs : FindOneFails(p)
    \/ \E p \in Procs : FindOne(p)
    \/ \E p \in Procs : UpgradeSubscription(p)
    \/ \E p \in Procs : Flush(p)
    \/ RemoveUser
    \/ Recover

\* The poller keeps calling while it may, and an invocation that can take its
\* next step takes it: the event loop resumes every coroutine whose await is
\* done.
FairLive ==
    /\ WF_vars(\E p \in Procs : NoneRunning /\ RetryCheck(p))
    /\ WF_vars(\E p \in Procs : FindOne(p))
    /\ WF_vars(\E p \in Procs : UpgradeSubscription(p))
    /\ WF_vars(\E p \in Procs : Flush(p))

SpecLive == Init /\ [][NextLive]_vars /\ FairLive

\* ----------------------------------------------------------------- claims

\* Rows of the payments table.
Rows == 1..Len(payments)

\* The gateway id the invocation that ended last was about.
LastPaymentId == IF last.op = "webhook" THEN last.payload.id ELSE last.payment_id

\* The Payment that invocation read, as the table held it when it started.
LastStored ==
    IF FindRow(last.pre, LastPaymentId) = 0 THEN NoPayment
    ELSE last.pre[FindRow(last.pre, LastPaymentId)]

\* The signature of the last webhook is absent or is the digest of its payload.
LastSignatureValidOrAbsent ==
    \/ last.signature.kind \in {"none", "empty"}
    \/ /\ settings.yookassa_webhook_secret # ""
       /\ last.signature =
            HmacSha256Hex(settings.yookassa_webhook_secret, JsonDumps(last.payload))

\* C1: concurrent check_payment invocations for one Payment that is not yet
\* SUCCEEDED, each told 'succeeded' by the gateway, invoke the grantor once in
\* total: as long as no invocation of the grantor failed, the log holds at
\* most one invocation for each Payment.
C1_GrantedOnceUnderConcurrency ==
    (\A k \in 1..Len(upgrades) : upgrades[k].ok)
        => \A i \in Rows : UpgradeCalls(i) <= 1

\* The last invocation read a Payment that was stored as SUCCEEDED.
C2_Case ==
    /\ last.op \in {"check", "webhook"}
    /\ last.op = "webhook" => LastSignatureValidOrAbsent
    /\ LastStored.status = SUCCEEDED

\* C2: a check_payment, direct or through handle_webhook with a valid or
\* absent signature, that reads a SUCCEEDED Payment makes no gateway call and
\* no grantor call, leaves the table as it was and returns that Payment.
C2_SucceededIsNoOp ==
    C2_Case =>
        /\ last.gateway_calls = 0
        /\ last.upgrade_calls = 0
        /\ payments = last.pre
        /\ last.outcome = ReturnPayment(LastStored)

\* A webhook with a verifying signature arrives for a Payment that an
\* earlier check_payment took to SUCCEEDED and granted.
C2_Witness ==
    /\ C2_Case
    /\ last.op = "webhook"
    /\ last.signature.kind = "hex"
    /\ UpgradeCalls(LastStored.id) = 1

\* C3: between non-overlapping invocations every stored Payment has exactly
\* one grantor invocation if it is SUCCEEDED and none otherwise.
C3_GrantedIffSucceeded ==
    NoneRunning =>
        \A i \in Rows :
            UpgradeCalls(i) = IF payments[i].status = SUCCEEDED THEN 1 ELSE 0

\* The last check_payment ended with the grantor's failure.
C4_Case ==
    /\ last.op = "check"
    /\ last.inner = Raise("GrantFailure")

\* C4: when the grantor fails in a check_payment whose fetched status mapped
\* to SUCCEEDED, the error reaches the caller, the table is as it was before
\* the call, the Payment is not SUCCEEDED, and a check_payment started now
\* goes to the gateway again and, told 'succeeded', to the grantor.
C4_GrantFailureLeavesPayment ==
    C4_Case =>
        /\ MapStatus(last.response.status) = SUCCEEDED
        /\ last.outcome = Raise("GrantFailure")
        /\ payments = last.pre
        /\ payments[last.row].status # SUCCEEDED
        /\ ReadPayment(NewFrame("check"), last.payment_id).pc = "find_one"
        /\ ShouldGrant(SUCCEEDED, payments[last.row])

\* After the failed grant a later check_payment for the same Payment has
\* reached the grantor again.
C4_Witness ==
    /\ C4_Case
    /\ \E p \in Procs :
        /\ pc[p] = "upgrade"
        /\ frame[p].row = last.row
        /\ UpgradeCalls(last.row) = 1

\* The last check_payment ended with the gateway's failure.
C5_Case ==
    /\ last.op = "check"
    /\ last.inner = Raise("GatewayError")

\* C5: when find_one fails in check_payment the error reaches the caller, no
\* grantor call is made and the table is as it was before the call.
C5_GatewayFailureLeavesPayment ==
    C5_Case =>
        /\ last.outcome = Raise("GatewayError")
        /\ last.upgrade_calls = 0
        /\ payments = last.pre

\* find_one failed for a Payment stored as WAITING_FOR_CAPTURE.
C5_Witness ==
    /\ C5_Case
    /\ last.gateway_calls = 1
    /\ LastStored.status = WAITING_FOR_CAPTURE

\* The last webhook came with a signature that does not verify.
C6_Case ==
    /\ last.op = "webhook"
    /\ settings.yookassa_webhook_secret # ""
    /\ last.signature.kind \notin {"none", "empty"}
    /\ last.signature #
            HmacSha256Hex(settings.yookassa_webhook_secret, JsonDumps(last.payload))

\* C6: with a secret configured, a webhook whose supplied signature is not
\* the digest of its payload returns null, calls neither the gateway nor the
\* grantor and leaves the table as it was.
C6_BadSignatureIsRejected ==
    C6_Case =>
        /\ last.outcome = ReturnNone
        /\ last.gateway_calls = 0
        /\ last.upgrade_calls = 0
        /\ payments = last.pre

\* A digest of another body was supplied for a PENDING Payment.
C6_Witness ==
    /\ C6_Case
    /\ last.signature.kind = "hex"
    /\ LastStored.status = PENDING

\* The last invocation was a webhook whose payload carries an id.
C7_Case ==
    /\ last.op = "webhook"
    /\ last.payload.id # NoId

\* C7: handle_webhook never raises: for a payload that carries an id, its
\* result is null whenever check_payment raised, and it is the Payment
\* exactly when check_payment returned one.
C7_WebhookNeverRaises ==
    C7_Case =>
        /\ last.outcome.kind # "raise"
        /\ last.inner.kind = "raise" => last.outcome = ReturnNone
        /\ last.inner.kind = "payment" => last.outcome = last.inner
        /\ last.outcome.kind = "payment" => last.inner = last.outcome

\* The grantor failed inside a webhook.
C7_Witness ==
    /\ C7_Case
    /\ last.inner = Raise("GrantFailure")

\* A frame, and an effect, without the body and signature of the webhook.
SameButBody(f) == [f EXCEPT !.payload = NoPayload, !.signature = NoSignature]
EffectButBody(eff) == [eff EXCEPT !.frame = SameButBody(@)]

\* The frames a twin invocation with the other body can be in.
Twins(f) ==
    {[f EXCEPT !.payload = Tampered(@), !.signature = s] :
        s \in SignaturesFor(Tampered(f.payload))}

\* The first step of two webhooks that pass the gate with the same id.
C8_EntryIgnoresBody ==
    (NoneRunning /\ now < MaxCalls) =>
        \A payload \in Payloads :
          \A s1 \in SignaturesFor(payload), s2 \in SignaturesFor(Tampered(payload)) :
            (~WebhookRejected(payload, s1) /\ ~WebhookRejected(Tampered(payload), s2))
                => EffectButBody(WebhookEntry(payload, s1))
                    = EffectButBody(WebhookEntry(Tampered(payload), s2))

\* Every later step of a webhook and of its twin.
C8_StepsIgnoreBody ==
    \A p \in Procs :
        (pc[p] # "idle" /\ frame[p].op = "webhook") =>
            \A twin \in Twins(frame[p]) :
                /\ pc[p] = "find_one" =>
                    /\ EffectButBody(FindOneRaised(frame[p]))
                        = EffectButBody(FindOneRaised(twin))
                    /\ \A response \in Responses :
                        EffectButBody(FindOneReturned(frame[p], response))
                            = EffectButBody(FindOneReturned(twin, response))
                /\ pc[p] = "upgrade" =>
                    \A ok \in BOOLEAN :
                        EffectButBody(Upgrade(frame[p], ok))
                            = EffectButBody(Upgrade(twin, ok))
                /\ pc[p] = "flush" =>
                    EffectButBody(FlushPayment(frame[p]))
                        = EffectButBody(FlushPayment(twin))

\* C8: the webhook body is only a trigger. Two handle_webhook invocations
\* that start from the same state with payloads of the same object.id, both
\* passing the signature gate, differ in nothing but the payload and the
\* signature they were given: the first step yields the same frame, table
\* and grant log for both, and so does every later step taken from frames
\* that differ only in those two arguments, whatever the gateway and the
\* grantor answer.
C8_WebhookBodyIsOnlyATrigger == C8_EntryIgnoresBody /\ C8_StepsIgnoreBody

\* A webhook whose body said 'canceled' ended with the Payment SUCCEEDED and
\* granted, as the gateway record said.
C8_Witness ==
    /\ last.op = "webhook"
    /\ last.payload.status = "canceled"
    /\ last.response.status = "succeeded"
    /\ last.outcome.kind = "payment"
    /\ last.outcome.payment.status = SUCCEEDED
    /\ last.upgrade_calls = 1
    /\ payments[last.row].status = SUCCEEDED

\* C9: once a Payment is stored as CANCELED, no step changes its status or
\* invokes the grantor for it.
C9_CanceledIsTerminal ==
    [][\A i \in Rows :
        payments[i].status = CANCELED =>
            /\ payments'[i].status = CANCELED
            /\ \A k \in 1..Len(upgrades') : k > Len(upgrades) => upgrades'[k].row # i]_vars

\* C10: once a Payment is stored as SUCCEEDED it stays SUCCEEDED, whatever
\* the interleaving of the invocations that read it earlier.
C10_SucceededIsAbsorbing ==
    [][\A i \in Rows :
        payments[i].status = SUCCEEDED => payments'[i].status = SUCCEEDED]_vars

\* The price configured for the tier the last create_payment was called with
\* is not positive; the FREE tier has none.
C11_Case ==
    /\ last.op = "create"
    /\ \/ last.tier = FREE
       \/ last.tier = PRO /\ settings.pro_monthly_price <= 0
       \/ last.tier = ULTRA /\ settings.ultra_monthly_price <= 0

\* C11: create_payment for a tier whose price is not positive fails with the
\* invalid-price error, makes no gateway call and persists no Payment.
C11_InvalidTierPriceCreatesNothing ==
    C11_Case =>
        /\ last.outcome = Raise("ValueError")
        /\ last.gateway_calls = 0
        /\ payments = last.pre

\* create_payment was called for a paid tier that has no price configured.
C11_Witness ==
    /\ C11_Case
    /\ last.tier \in {PRO, ULTRA}
    /\ last.outcome.kind = "raise"

\* The last create_payment ended with the gateway's failure.
C12_Case ==
    /\ last.op = "create"
    /\ last.inner = Raise("GatewayError")

\* C12: when YooPayment.create fails in create_payment the error reaches the
\* caller and the payments table is as it was before the call.
C12_GatewayFailureCreatesNothing ==
    C12_Case =>
        /\ last.outcome = Raise("GatewayError")
        /\ payments = last.pre

\* The create call failed for a tier that has a price.
C12_Witness ==
    /\ C12_Case
    /\ last.gateway_calls = 1
    /\ last.tier \in {PRO, ULTRA}

\* Strings the mapper is asked about: what the gateway reports, the empty
\* string, and spellings that differ from a known literal in case only.
C13_Inputs == RawStatuses \cup {"", "SUCCEEDED", "Canceled", "succeeded "}

\* The state the specification names for a status string.
C13_Namesake(status) ==
    CASE status = "pending" -> PENDING
      [] status = "waiting_for_capture" -> WAITING_FOR_CAPTURE
      [] status = "succeeded" -> SUCCEEDED
      [] status = "canceled" -> CANCELED
      [] OTHER -> PENDING

\* C13: _map_status is total: each of the four known literals maps to the
\* state of that name and every other string maps to PENDING; a check_payment
\* that reached its flush returns the Payment in the state so mapped.
C13_MapStatusIsTotal ==
    /\ \A status \in C13_Inputs :
         /\ MapStatus(status) \in PaymentStatus
         /\ MapStatus(status) = C13_Namesake(status)
    /\ (last.op \in {"check", "webhook"} /\ last.gateway_calls = 1
            /\ last.inner.kind = "payment") =>
         last.inner.payment.status = C13_Namesake(last.response.status)

\* A pass in which the gateway reported a status the enumeration does not
\* know, and the Payment came back PENDING.
C13_Witness ==
    /\ last.op \in {"check", "webhook"}
    /\ last.gateway_calls = 1
    /\ last.response.status = "refunded"
    /\ last.inner.kind = "payment"
    /\ last.inner.payment.status = PENDING

\* Signature headers: those a delivery of the payload may carry, a digest
\* made with another key, and the valid digest of each other payload.
C14_Signatures(payload) ==
    SignaturesFor(payload)
        \cup {HmacSha256Hex("forged", JsonDumps(payload))}
        \cup {HmacSha256Hex("whsec", JsonDumps(other)) : other \in Payloads}

\* What the specification says verify returns.
C14_Expected(payload, signature) ==
    \/ settings.yookassa_webhook_secret = ""
    \/ signature = HmacSha256Hex(settings.yookassa_webhook_secret, JsonDumps(payload))

\* C14: verify_webhook_signature is a function of the payload, the signature
\* and the secret: with a secret it is true exactly for the HMAC of the
\* payload under that secret, with no secret it is true for every input; a
\* webhook that carries a signature goes on exactly when verify is true.
C14_VerifyIsExact ==
    /\ \A payload \in Payloads :
         \A signature \in C14_Signatures(payload) :
           VerifyWebhookSignature(payload, signature) = C14_Expected(payload, signature)
    /\ (last.op = "webhook" /\ Truthy(last.signature) /\ last.payload.id # NoId) =>
         ((last.payment_id # NoId) = C14_Expected(last.payload, last.signature))

\* A webhook whose signature was verified against the configured secret and
\* accepted.
C14_Witness ==
    /\ last.op = "webhook"
    /\ settings.yookassa_webhook_secret # ""
    /\ last.signature = HmacSha256Hex(settings.yookassa_webhook_secret,
                                      JsonDumps(last.payload))
    /\ last.payment_id # NoId

\* C15: with a webhook secret configured, handle_webhook ignores a payload
\* without object.id and every delivery that carries no verifying signature
\* (a wrong one or none at all): it returns None, calls neither the gateway
\* nor the grantor and changes no Payment.
C15_UnauthenticatedIsIgnored ==
    (/\ last.op = "webhook"
     /\ settings.yookassa_webhook_secret # ""
     /\ \/ last.payload.id = NoId
        \/ last.signature # HmacSha256Hex(settings.yookassa_webhook_secret,
                                          JsonDumps(last.payload))) =>
        /\ last.outcome = ReturnNone
        /\ last.gateway_calls = 0
        /\ last.upgrade_calls = 0
        /\ payments = last.pre

\* The last create_payment returned a Payment.
C16_Case ==
    /\ last.op = "create"
    /\ last.outcome.kind = "payment"

\* The price configured for the tier of the last create_payment.
C16_Price ==
    IF last.tier = PRO THEN settings.pro_monthly_price
    ELSE settings.ultra_monthly_price

\* C16: a create_payment that succeeds made one gateway call and appended one
\* Payment: 100 times the tier's price in rubles as amount, the caller's user
\* and tier, a gateway id, the confirmation URL, and the status the mapper
\* gives for the status the gateway reported (PRO at 500 RUB: 50000).
C16_CreatePersistsOnePayment ==
    C16_Case =>
        /\ last.gateway_calls = 1
        /\ payments = Append(last.pre, last.outcome.payment)
        /\ LET payment == payments[Len(payments)] IN
             /\ C16_Price > 0
             /\ payment.amount = 100 * C16_Price
             /\ (last.tier = PRO /\ settings.pro_monthly_price = 500 =>
                    payment.amount = 50000)
             /\ payment.user_id = last.user_id
             /\ payment.subscription_tier = last.tier
             /\ last.tier \in {PRO, ULTRA}
             /\ payment.yookassa_payment_id \in GatewayIds
             /\ \A i \in 1..Len(last.pre) :
                  last.pre[i].yookassa_payment_id # payment.yookassa_payment_id
             /\ payment.confirmation_url = "confirmation_url"
             /\ payment.status = C13_Namesake(last.response.status)
             /\ (last.response.status = "pending" => payment.status = PENDING)

\* PRO at 500 RUB was paid for: the Payment stored is of 50000 kopecks.
C16_Witness ==
    /\ C16_Case
    /\ last.tier = PRO
    /\ settings.pro_monthly_price = 500
    /\ payments[Len(payments)].amount = 50000

\* The invocation of p completes a check_payment pass in this step: the
\* gateway answered, the grant (if any) went through, the flush is done.
C17_PassCompletes(p) == pc[p] = "flush" /\ pc'[p] = "idle"

\* C17: a check_payment pass that completes on a Payment that was not
\* SUCCEEDED stamps processed_at with the time of the pass and sets
\* error_message to the cancellation reason of the fetched record, or clears
\* it when the record has none, whether or not the status changes: so reads
\* the Payment it returns, so reads the stored processed_at, and so reads the
\* stored error_message when it is still the one the pass had read.
C17_EveryPassStampsPayment ==
    [][\A p \in Procs :
        C17_PassCompletes(p) =>
            LET f == frame[p]
                reason == f.response.cancellation_details
            IN  /\ f.loaded.status # SUCCEEDED
                /\ last'.inner.kind = "payment"
                /\ last'.inner.payment.processed_at = now
                /\ last'.inner.payment.error_message = reason
                /\ payments'[f.row].processed_at = now
                /\ payments[f.row].error_message = f.loaded.error_message =>
                       payments'[f.row].error_message = reason]_vars

\* A pass completed in which the mapped status was the status the Payment
\* had; the Payment carries the time of that pass, later than the one before.
C17_Witness ==
    /\ last.op \in {"check", "webhook"}
    /\ last.gateway_calls = 1
    /\ last.outcome.kind = "payment"
    /\ last.outcome.payment.status = last.loaded.status
    /\ last.loaded.processed_at # NoTime
    /\ last.loaded.error_message # None
    /\ NoneRunning
    /\ payments[last.row].processed_at = now
    /\ payments[last.row].processed_at > last.loaded.processed_at
    /\ payments[last.row].error_message = None

\* The attributes of a Payment that create_payment gives it.
C18_Created(payment) ==
    <<payment.id, payment.yookassa_payment_id, payment.user_id,
      payment.subscription_tier, payment.amount, payment.confirmation_url>>

\* C18: no step of check_payment or handle_webhook changes the id, gateway
\* id, user, tier, amount or confirmation URL of a stored Payment, whatever
\* the gateway's record carries, and none adds or removes a Payment: a row
\* appears only when a create_payment ends, and a row changes only at the
\* flush of a pass that addressed it by its gateway id.
C18_OnlyStatusFieldsChange ==
    [][/\ Len(payments') >= Len(payments)
       /\ Len(payments') # Len(payments) =>
            /\ last'.op = "create"
            /\ payments' = Append(payments, last'.outcome.payment)
       /\ \A i \in Rows :
            /\ C18_Created(payments'[i]) = C18_Created(payments[i])
            /\ payments'[i] # payments[i] =>
                 \E p \in Procs :
                    /\ pc[p] = "flush" /\ pc'[p] = "idle"
                    /\ frame[p].op \in {"check", "webhook"}
                    /\ frame[p].row = i
                    /\ frame[p].payment_id = payments[i].yookassa_payment_id]_vars

\* A pass ended on a gateway record whose amount is not the Payment's: the
\* Payment is SUCCEEDED and its amount is the one it was created with.
C18_Witness ==
    /\ last.op \in {"check", "webhook"}
    /\ last.response.amount = "partial"
    /\ last.inner.kind = "payment"
    /\ payments[last.row].status = SUCCEEDED
    /\ payments[last.row].processed_at # NoTime
    /\ payments[last.row].amount = last.loaded.amount
    /\ payments[last.row].amount = KopecksPerRuble * 500

\* The grantor is invoked in this step.
C19_Granting == upgrades' # upgrades

\* C19: the grantor is invoked only by a check_payment pass (direct, or of a
\* webhook that passed the gate with an id) that fetched the record of the
\* gateway id of its Payment, found it 'succeeded', and had read the Payment
\* as not SUCCEEDED; it is invoked once, for that Payment. No create_payment,
\* no webhook that was turned away, no pass whose fetch failed or reported
\* another status invokes it.
C19_GrantOnlyOnFreshSuccess ==
    [][C19_Granting =>
        \E p \in Procs :
            LET f == frame[p] IN
            /\ pc[p] = "upgrade"
            /\ f.op \in {"check", "webhook"}
            /\ f.op = "webhook" =>
                 /\ f.payload.id = f.payment_id
                 /\ \/ ~Truthy(f.signature)
                    \/ C14_Expected(f.payload, f.signature)
            /\ f.payment_id # NoId
            /\ f.loaded.yookassa_payment_id = f.payment_id
            /\ f.gateway_calls = 1
            /\ f.response.status = "succeeded"
            /\ f.loaded.status \in {PENDING, WAITING_FOR_CAPTURE, CANCELED}
            /\ Len(upgrades') = Len(upgrades) + 1
            /\ upgrades'[Len(upgrades')].row = f.row
            /\ upgrades'[Len(upgrades')].user_id = f.loaded.user_id
            /\ upgrades'[Len(upgrades')].tier = f.loaded.subscription_tier
            /\ \A k \in 1..Len(upgrades) : upgrades'[k] = upgrades[k]]_vars

\* The grantor was invoked by the pass of a webhook.
C19_Witness ==
    /\ last.op = "webhook"
    /\ last.upgrade_calls = 1
    /\ last.response.status = "succeeded"
    /\ Len(upgrades) = 1
    /\ upgrades[1].row = last.row

\* The outage is over, the first Payment is neither SUCCEEDED nor CANCELED,
\* no invocation is running and the poller may call again.
C20_Case ==
    /\ healthy
    /\ NoneRunning
    /\ now < MaxCalls
    /\ Len(payments) >= 1
    /\ payments[1].status \in {PENDING, WAITING_FOR_CAPTURE}

\* The Payment is SUCCEEDED and the grantor has been invoked for it.
C20_Done ==
    /\ Len(payments) >= 1
    /\ payments[1].status = SUCCEEDED
    /\ UpgradeCalls(1) >= 1

\* C20: a Payment that is not terminal stays retriable: once every find_one
\* for it reports 'succeeded' and the grantor does not fail, the repeated
\* check_payment calls lead to a Payment that is SUCCEEDED and for which the
\* grantor has been invoked, whatever failed before.
C20_FailedCheckIsRetriable == C20_Case ~> C20_Done

====
